---- MODULE Spec2Model ----
(***************************************************************************)
(* K-means (Lloyd iteration) and K-means++ seeding of the repository.      *)
(*                                                                         *)
(* Numbers.  The program computes on floats; the model computes on exact   *)
(* rationals.  A coordinate x is held as the integer x * Scale, where      *)
(* Scale is a common multiple of every possible cluster size, so every     *)
(* mean of points is an integer again.  euclidean() takes a square root;   *)
(* the model keeps the squared distance, which orders non-negative         *)
(* distances the same way, and compares a shift with eps through squares.  *)
(* Rounding of floats is not modelled.                                     *)
(*                                                                         *)
(* Indices.  Python lists are 0-based, TLA+ sequences 1-based: cluster     *)
(* index k of the code is k + 1 here, the order of the indices is kept.    *)
(***************************************************************************)
EXTENDS Integers, Sequences, FiniteSets, TLC

VARIABLES
    points,         \* kmeans: the list of N vectors
    K,              \* kmeans: number of clusters
    max_iter,       \* kmeans: iteration cap
    eps,            \* kmeans: tolerance, a rational [num, den]
    centroids,      \* kmeans: local `centroids`
    clusters,       \* kmeans: local `clusters` of the current iteration
    new_centroids,  \* kmeans: local `new_centroids` of the current iteration
    it,             \* kmeans: iterations of `for _ in range(max_iter)` started
    pc,             \* kmeans: position in the function
    broke,          \* kmeans: the loop was left by `break`
    init,           \* the initial centroids of the current call
    run,            \* 1: first call; 2: call on the first call's result
    first,          \* how the first call ended: [C: returned set, broke]
    indices,        \* kmeans_pp_init: local `indices` (0-based, as printed)
    dists,          \* kmeans_pp_init: local `dists`
    probs,          \* kmeans_pp_init: local `probs`
    gen,            \* numpy's global generator: [seeded: by seed(1234),
                    \* drawn: numbers drawn since it was last seeded]
    tape,           \* the numbers the generator yields after seed(1234), as
                    \* far as kmeans_pp_init has drawn them
    earlier,        \* the indices an earlier call of kmeans_pp_init returned
    argv,           \* sys.argv, argv[0] of the code being argv[1] here
    raw1,           \* main: rows of the first file
    raw2,           \* main: rows of the second file
    stdout,         \* the lines printed so far
    status          \* <<>> while the process runs, then <<exit status>>

\* the locals of kmeans
lloydVars == <<centroids, clusters, new_centroids, it, broke, init, run, first>>

\* the locals of kmeans_pp_init and the state of numpy's global generator
seedVars == <<indices, dists, probs, gen, tape, earlier>>

\* the process: its arguments, its files and what it has printed
procVars == <<argv, raw1, raw2, stdout, status>>

vars == <<points, K, max_iter, eps, pc, lloydVars, seedVars, procVars>>

----------------------------------------------------------------------------
(* Bounds of the model *)

\* points per input: 2..MaxN
MaxN == 3

\* coordinates of the input points: 0..MaxCoord
MaxCoord == 1

\* max_iter of the inputs: 1..MaxIter
MaxIter == 2

\* rows of each input file of the command-line runs
StubRows == 12

\* numbers the program draws from the generator before a call of the seeding
MaxDraws == 2

----------------------------------------------------------------------------
(* Arithmetic helpers *)

Max(a, b) == IF a >= b THEN a ELSE b

RECURSIVE Gcd(_, _)
Gcd(a, b) == IF b = 0 THEN a ELSE Gcd(b, a % b)

RECURSIVE LcmUpTo(_)
LcmUpTo(n) == IF n <= 1 THEN 1
              ELSE LET l == LcmUpTo(n - 1) IN (l * n) \div Gcd(l, n)

CeilDiv(a, b) == (a + b - 1) \div b

\* The end-to-end example of the specification, in its own units.
ExamplePoints == << <<0, 0>>, <<0, 1>>, <<10, 10>>, <<10, 11>> >>

\* One unit of a coordinate: every cluster size divides it.
Scale == LcmUpTo(Max(MaxN, Len(ExamplePoints)))

Scaled(v) == [i \in 1..Len(v) |-> v[i] * Scale]

ScaledAll(ps) == [j \in 1..Len(ps) |-> Scaled(ps[j])]

----------------------------------------------------------------------------
(* kmeans.py: euclidean, and the three steps of one iteration *)

RECURSIVE SumSq(_, _, _)
SumSq(p1, p2, i) ==
    IF i > Len(p1) \/ i > Len(p2) THEN 0
    ELSE (p1[i] - p2[i]) * (p1[i] - p2[i]) + SumSq(p1, p2, i + 1)

\* euclidean(p1, p2) squared: sum((a - b) ** 2 for a, b in zip(p1, p2))
euclideanSq(p1, p2) == SumSq(p1, p2, 1)

\* float("inf") as the running best before any centroid was seen
Inf == -1

\* a scan that compares with <= keeps the last of several nearest centroids
DistLessOrEqual(dist, best_dist) == best_dist = Inf \/ dist <= best_dist

\* `dist < best_dist`
DistLess(dist, best_dist) == best_dist = Inf \/ dist < best_dist

\* the scan `for k in range(K)` of the assignment step, from index k on
RECURSIVE ScanBest(_, _, _, _, _, _)
ScanBest(p, cs, k, n, best_k, best_dist) ==
    IF k > n THEN best_k
    ELSE LET dist == euclideanSq(p, cs[k]) IN
         IF DistLess(dist, best_dist)
         THEN ScanBest(p, cs, k + 1, n, k, dist)
         ELSE ScanBest(p, cs, k + 1, n, best_k, best_dist)

\* best_k of point p after the scan (best_k = 0 in the code is index 1 here)
BestK(p, cs, n) == ScanBest(p, cs, 1, n, 1, Inf)

\* clusters after the assignment step: clusters[best_k].append(p), in order
AssignClusters(ps, cs, n) ==
    [k \in 1..n |-> SelectSeq(ps, LAMBDA p : BestK(p, cs, n) = k)]

RECURSIVE SumCoord(_, _, _)
SumCoord(cluster, i, j) ==
    IF j > Len(cluster) THEN 0
    ELSE cluster[j][i] + SumCoord(cluster, i, j + 1)

\* a mean that leaves the sums undivided
MeanUndivided(cluster, dim) == [i \in 1..dim |-> SumCoord(cluster, i, 1)]

\* centroid = [s / len(cluster) for s in sums]
MeanOf(cluster, dim) ==
    [i \in 1..dim |-> SumCoord(cluster, i, 1) \div Len(cluster)]

\* an update that re-seeds the centroid of an empty cluster at the origin
UpdateCentroidZeroed(cluster, old, dim) ==
    IF cluster # <<>> THEN MeanOf(cluster, dim) ELSE [i \in 1..dim |-> 0]

\* one entry of new_centroids: the mean, or the old centroid of an empty cluster
UpdateCentroid(cluster, old, dim) ==
    IF cluster # <<>> THEN MeanOf(cluster, dim) ELSE old

\* an update that has a centroid only for the clusters that hold points
UpdateCentroidsOfNonEmpty(cl, cs, n, dim) ==
    LET nonempty == SelectSeq([k \in 1..n |-> k], LAMBDA k : cl[k] # <<>>)
    IN  [j \in 1..Len(nonempty) |-> MeanOf(cl[nonempty[j]], dim)]

\* new_centroids after the update step
UpdateCentroids(cl, cs, n, dim) ==
    [k \in 1..n |-> UpdateCentroid(cl[k], cs[k], dim)]

RECURSIVE MaxShiftSq(_, _, _)
MaxShiftSq(old, new, k) ==
    IF k > Len(old) \/ k > Len(new) THEN 0
    ELSE Max(euclideanSq(old[k], new[k]), MaxShiftSq(old, new, k + 1))

\* largest_shift squared
LargestShiftSq(old, new) == MaxShiftSq(old, new, 1)

\* a convergence test with <= in place of <
ShiftAtMostEps(shiftSq, e) ==
    shiftSq <= (e.num * e.num * Scale * Scale) \div (e.den * e.den)

\* `largest_shift < eps`, for eps = e.num / e.den >= 0, through squares:
\* shiftSq / Scale^2 < num^2 / den^2
ShiftBelowEps(shiftSq, e) ==
    shiftSq < CeilDiv(e.num * e.num * Scale * Scale, e.den * e.den)

----------------------------------------------------------------------------
(* Inputs *)

Dims == {1, 2}

Grid(dim) == [1..dim -> 0..MaxCoord]

PointLists(dim) == UNION {[1..n -> Grid(dim)] : n \in 2..MaxN}

EpsValues == {[num |-> 0, den |-> 1], [num |-> 1, den |-> 1000],
              [num |-> 1, den |-> 2]}

Example == [points |-> ExamplePoints, K |-> 2, max_iter |-> 10,
            eps |-> [num |-> 1, den |-> 1000]]

\* centroids = [p[:] for p in points[:K]]
FirstK(ps, n) == SubSeq(ps, 1, n)

\* init_centroids = data[init_indices].tolist()
AtIndices(ps, idx) == [j \in 1..Len(idx) |-> ps[idx[j]]]

Dim == Len(points[1])

----------------------------------------------------------------------------
(* kmeans as a state machine *)

\* kmeans called as a function: no seeding and no process around it
NoSeeding ==
    /\ indices = <<>> /\ dists = <<>> /\ probs = <<>>
    /\ gen = [seeded |-> FALSE, drawn |-> 0]
    /\ tape = <<>>
    /\ earlier = <<>>

NoProcess ==
    argv = <<>> /\ raw1 = <<>> /\ raw2 = <<>> /\ stdout = <<>> /\ status = <<>>

Start(ps, n, mi, e, cs) ==
    /\ points = ps
    /\ K = n
    /\ max_iter = mi
    /\ eps = e
    /\ centroids = cs
    /\ clusters = <<>>
    /\ new_centroids = <<>>
    /\ it = 0
    /\ pc = "loop"
    /\ broke = FALSE
    /\ init = cs
    /\ run = 1
    /\ first = [C |-> <<>>, broke |-> FALSE]
    /\ NoSeeding
    /\ NoProcess

\* kmeans(points, K, max_iter, eps) of kmeans.py on a bounded input
InitKmeans ==
    \E dim \in Dims : \E ps \in PointLists(dim) :
    \E n \in 1..(Len(ps) - 1) : \E mi \in 1..MaxIter : \E e \in EpsValues :
        Start(ScaledAll(ps), n, mi, e, FirstK(ScaledAll(ps), n))

\* the example input, started from the first K points or from points 0 and 2
InitExample ==
    \E idx \in {<<1, 2>>, <<1, 3>>} :
        Start(ScaledAll(Example.points), Example.K, Example.max_iter,
              Example.eps, AtIndices(ScaledAll(Example.points), idx))

Init == InitKmeans \/ InitExample

\* for _ in range(max_iter): the assignment step
Assign ==
    /\ pc = "loop"
    /\ it < max_iter
    /\ clusters' = AssignClusters(points, centroids, K)
    /\ it' = it + 1
    /\ pc' = "update"
    /\ UNCHANGED <<points, K, max_iter, eps, centroids, new_centroids,
                   broke, init, run, first, seedVars, procVars>>

\* an update step that sums every cluster up in its first point, the vector
\* of the input list that the cluster holds, instead of in a new list
UpdateInPlace ==
    /\ pc = "update"
    /\ new_centroids' = UpdateCentroids(clusters, centroids, K, Dim)
    /\ points' =
         [j \in 1..Len(points) |->
            LET k == BestK(points[j], centroids, K) IN
            IF \A i \in 1..(j - 1) : BestK(points[i], centroids, K) # k
            THEN [d \in 1..Dim |-> points[j][d] + SumCoord(clusters[k], d, 1)]
            ELSE points[j]]
    /\ pc' = "test"
    /\ UNCHANGED <<K, max_iter, eps, centroids, clusters, it,
                   broke, init, run, first, seedVars, procVars>>

\* the update step
Update ==
    /\ pc = "update"
    /\ new_centroids' = UpdateCentroids(clusters, centroids, K, Dim)
    /\ pc' = "test"
    /\ UNCHANGED <<points, K, max_iter, eps, centroids, clusters, it,
                   broke, init, run, first, seedVars, procVars>>

\* a convergence test that takes over new_centroids before it breaks
TestNewOnBreak ==
    /\ pc = "test"
    /\ centroids' = new_centroids
    /\ IF ShiftBelowEps(LargestShiftSq(centroids, new_centroids), eps)
       THEN /\ broke' = TRUE
            /\ pc' = "done"
       ELSE /\ pc' = "loop"
            /\ UNCHANGED broke
    /\ UNCHANGED <<points, K, max_iter, eps, clusters, new_centroids, it,
                   init, run, first, seedVars, procVars>>

\* a convergence test that forgets the update of the last iteration
TestDropsLast ==
    /\ pc = "test"
    /\ IF ShiftBelowEps(LargestShiftSq(centroids, new_centroids), eps)
       THEN /\ broke' = TRUE
            /\ pc' = "done"
            /\ UNCHANGED centroids
       ELSE /\ centroids' = IF it = max_iter THEN centroids ELSE new_centroids
            /\ pc' = "loop"
            /\ UNCHANGED broke
    /\ UNCHANGED <<points, K, max_iter, eps, clusters, new_centroids, it,
                   init, run, first, seedVars, procVars>>

\* the convergence test: break, or centroids = new_centroids
Test ==
    /\ pc = "test"
    /\ IF ShiftBelowEps(LargestShiftSq(centroids, new_centroids), eps)
       THEN /\ broke' = TRUE
            /\ pc' = "done"
            /\ UNCHANGED centroids
       ELSE /\ centroids' = new_centroids
            /\ pc' = "loop"
            /\ UNCHANGED broke
    /\ UNCHANGED <<points, K, max_iter, eps, clusters, new_centroids, it,
                   init, run, first, seedVars, procVars>>

\* the loop is exhausted: return centroids
Return ==
    /\ pc = "loop"
    /\ it >= max_iter
    /\ pc' = "done"
    /\ UNCHANGED <<points, K, max_iter, eps, centroids, clusters,
                   new_centroids, it, broke, init, run, first, seedVars, procVars>>

\* a second call on the same points, started from the returned centroids
Rerun ==
    /\ pc = "done"
    /\ run = 1
    /\ first' = [C |-> centroids, broke |-> broke]
    /\ init' = centroids
    /\ run' = 2
    /\ it' = 0
    /\ broke' = FALSE
    /\ pc' = "loop"
    /\ clusters' = <<>>
    /\ new_centroids' = <<>>
    /\ UNCHANGED <<points, K, max_iter, eps, centroids, seedVars,
                   procVars>>

Next == Assign \/ Update \/ Test \/ Return \/ Rerun

Spec == Init /\ [][Next]_vars

----------------------------------------------------------------------------
(* kmeanspp.py: kmeans_pp_init, and main around it *)

ERR_GENERAL == "An Error Has Occurred Py"

\* The uniform numbers in [0, 1) the generator may yield, as rationals.  Which
\* ones np.random.seed(1234) yields is not modelled: any of these may come,
\* but the same seed yields the same numbers again (`tape`).
UValues == {[num |-> 0, den |-> 1], [num |-> 1, den |-> 2],
            [num |-> 3, den |-> 4]}

\* the generator right after np.random.seed(1234)
Seeded1234 == [seeded |-> TRUE, drawn |-> 0]

\* generator g, whose seed-1234 numbers are t as far as known, yields u next
Yields(g, t, u) ==
    IF g.seeded /\ g.drawn < Len(t) THEN u = t[g.drawn + 1] ELSE u \in UValues

\* the generator after one draw
Advanced(g) == [g EXCEPT !.drawn = @ + 1]

\* the known seed-1234 numbers after generator g has yielded u
Taped(g, t, u) == IF g.seeded /\ g.drawn = Len(t) THEN Append(t, u) ELSE t

\* np.random.choice(N): the index a uniform number u selects among N
UniformIndex(u, n) == (u.num * n) \div u.den

RECURSIVE MinDistTo(_, _, _, _)
MinDistTo(ps, p, idx, j) ==
    LET d == euclideanSq(p, ps[idx[j] + 1]) IN
    IF j = Len(idx) THEN d
    ELSE LET r == MinDistTo(ps, p, idx, j + 1) IN IF d <= r THEN d ELSE r

\* distances to the most recently chosen point only
MinDistsToLast(ps, idx) ==
    [j \in 1..Len(ps) |-> euclideanSq(ps[j], ps[idx[Len(idx)] + 1])]

\* dists: for every point the squared distance to the nearest chosen point
MinDists(ps, idx) == [j \in 1..Len(ps) |-> MinDistTo(ps, ps[j], idx, 1)]

RECURSIVE SumTo(_, _)
SumTo(ds, j) == IF j = 0 THEN 0 ELSE ds[j] + SumTo(ds, j - 1)

\* dists.sum()
Total(ds) == SumTo(ds, Len(ds))

\* one entry of dists / dists.sum(), as the fraction it is: numpy divides
\* floats without a check, and 0.0 / 0.0 is nan
Divide(d, total) == [num |-> d, den |-> total]

\* probs = dists / dists.sum()
Probs(ds) == [j \in 1..Len(ds) |-> Divide(ds[j], Total(ds))]

\* the float is nan: 0.0 / 0.0
IsNaN(x) == x.num = 0 /\ x.den = 0

\* np.random.choice: "probabilities contain NaN"
HasNaN(p) == \E j \in 1..Len(p) : IsNaN(p[j])

\* cdf[j] > u, for cdf = cumsum(p) over the common denominator of p
RECURSIVE CumNum(_, _)
CumNum(p, j) == IF j = 0 THEN 0 ELSE p[j].num + CumNum(p, j - 1)

CdfAbove(p, j, u) == CumNum(p, j) * u.den > u.num * p[1].den

\* np.random.choice(N, p=probs): cdf.searchsorted(u, side="right"), 0-based
WeightedIndex(p, u) ==
    (CHOOSE j \in 1..Len(p) :
        /\ CdfAbove(p, j, u)
        /\ \A i \in 1..(j - 1) : ~CdfAbove(p, i, u)) - 1

\* the process has not ended: it has no exit status yet
Running == <<>>

\* sys.exit(code)
Exited(code) == <<code>>

\* main has called kmeans_pp_init(data, K) on the joined rows
InitSeed ==
    \E dim \in Dims : \E ps \in PointLists(dim) : \E n \in 2..MaxN :
        /\ points = ScaledAll(ps)
        /\ K = n
        /\ max_iter = 0
        /\ eps = [num |-> 0, den |-> 1]
        /\ pc = "pp_init"
        /\ centroids = <<>> /\ clusters = <<>> /\ new_centroids = <<>>
        /\ it = 0 /\ broke = FALSE /\ init = <<>> /\ run = 1
        /\ first = [C |-> <<>>, broke |-> FALSE]
        /\ NoSeeding
        /\ argv = <<>> /\ raw1 = <<>> /\ raw2 = <<>>
        /\ stdout = <<>>
        /\ status = Running

\* a first draw that goes on with the generator as it is, without seeding it
PpFirstUnseeded ==
    /\ pc = "pp_init"
    /\ \E u \in UValues :
         /\ Yields(gen, tape, u)
         /\ gen' = Advanced(gen)
         /\ tape' = Taped(gen, tape, u)
         /\ indices' = <<UniformIndex(u, Len(points))>>
    /\ pc' = "pp_loop"
    /\ UNCHANGED <<points, K, max_iter, eps, dists, probs, earlier, lloydVars,
                   procVars>>

\* np.random.seed(1234); idx0 = np.random.choice(N); indices.append(idx0)
PpFirst ==
    /\ pc = "pp_init"
    /\ \E u \in UValues :
         /\ Yields(Seeded1234, tape, u)
         /\ gen' = Advanced(Seeded1234)
         /\ tape' = Taped(Seeded1234, tape, u)
         /\ indices' = <<UniformIndex(u, Len(points))>>
    /\ pc' = "pp_loop"
    /\ UNCHANGED <<points, K, max_iter, eps, dists, probs, earlier, lloydVars,
                   procVars>>

\* for _ in range(1, K): dists = ...; probs = dists / dists.sum()
PpProbs ==
    /\ pc = "pp_loop"
    /\ Len(indices) < K
    /\ dists' = MinDists(points, indices)
    /\ probs' = Probs(dists')
    /\ pc' = "pp_choose"
    /\ UNCHANGED <<points, K, max_iter, eps, indices, gen, tape, earlier,
                   lloydVars, procVars>>

\* next_idx = np.random.choice(N, p=probs); indices.append(next_idx)
\* choice raises ValueError when probs holds a nan
PpChoose ==
    /\ pc = "pp_choose"
    /\ IF HasNaN(probs)
       THEN /\ pc' = "pp_raised"
            /\ UNCHANGED <<indices, gen, tape>>
       ELSE /\ \E u \in UValues :
                 /\ Yields(gen, tape, u)
                 /\ gen' = Advanced(gen)
                 /\ tape' = Taped(gen, tape, u)
                 /\ indices' = Append(indices, WeightedIndex(probs, u))
            /\ pc' = "pp_loop"
    /\ UNCHANGED <<points, K, max_iter, eps, dists, probs, earlier, lloydVars,
                   procVars>>

\* return indices
PpReturn ==
    /\ pc = "pp_loop"
    /\ Len(indices) >= K
    /\ pc' = "seeded"
    /\ UNCHANGED <<points, K, max_iter, eps, lloydVars, seedVars, procVars>>

\* main: except Exception: print(ERR_GENERAL); sys.exit(1)
MainExcept ==
    /\ pc = "pp_raised"
    /\ stdout' = Append(stdout, ERR_GENERAL)
    /\ status' = Exited(1)
    /\ pc' = "exit"
    /\ UNCHANGED <<points, K, max_iter, eps, lloydVars, seedVars, argv, raw1,
                   raw2>>

NextSeed == PpFirst \/ PpProbs \/ PpChoose \/ PpReturn \/ MainExcept

SpecSeed == InitSeed /\ [][NextSeed]_vars

\* Two calls of kmeans_pp_init on the same points and K, the program drawing
\* from numpy's global generator before each of them.

\* kmeans_pp_init is about to be called on points of one coordinate
InitReseed ==
    \E ps \in PointLists(1) : \E n \in 2..MaxN :
        /\ points = ScaledAll(ps)
        /\ K = n
        /\ max_iter = 0
        /\ eps = [num |-> 0, den |-> 1]
        /\ pc = "pp_init"
        /\ centroids = <<>> /\ clusters = <<>> /\ new_centroids = <<>>
        /\ it = 0 /\ broke = FALSE /\ init = <<>> /\ run = 1
        /\ first = [C |-> <<>>, broke |-> FALSE]
        /\ NoSeeding
        /\ argv = <<>> /\ raw1 = <<>> /\ raw2 = <<>>
        /\ stdout = <<>>
        /\ status = Running

\* the program draws a number from the global generator (np.random.randint,
\* np.random.uniform, ...); the number goes to the program, the generator
\* moves on
OtherDraw ==
    /\ pc = "pp_init"
    /\ gen.drawn < Len(earlier) + MaxDraws
    /\ gen' = Advanced(gen)
    /\ UNCHANGED <<points, K, max_iter, eps, pc, indices, dists, probs, tape,
                   earlier, lloydVars, procVars>>

\* kmeans_pp_init(points, K) is called once more, on the same points and K
Reinvoke ==
    /\ pc = "seeded"
    /\ earlier = <<>>
    /\ earlier' = indices
    /\ indices' = <<>>
    /\ dists' = <<>>
    /\ probs' = <<>>
    /\ pc' = "pp_init"
    /\ UNCHANGED <<points, K, max_iter, eps, gen, tape, lloydVars, procVars>>

NextReseed == NextSeed \/ OtherDraw \/ Reinvoke

SpecReseed == InitReseed /\ [][NextReseed]_vars

----------------------------------------------------------------------------
(* kmeanspp.py: parse_cli, and main up to the size check.                  *)
(* An argument is a sequence of characters, each a one-character string;   *)
(* a character outside ASCII is written by its code point, "U+05D0".       *)

ERR_INVALID_K == "Invalid number of clusters!"

ERR_INVALID_ITER == "Invalid maximum iteration!"

ERR_INVALID_EPS == "Invalid epsilon!"

DigitChars == {"0", "1", "2", "3", "4", "5", "6", "7", "8", "9"}

DigitValue(c) ==
    CASE c = "0" -> 0 [] c = "1" -> 1 [] c = "2" -> 2 [] c = "3" -> 3
      [] c = "4" -> 4 [] c = "5" -> 5 [] c = "6" -> 6 [] c = "7" -> 7
      [] c = "8" -> 8 [] c = "9" -> 9

AllDigits(s) == \A i \in 1..Len(s) : s[i] \in DigitChars

RECURSIVE DigitsValue(_)
DigitsValue(s) ==
    IF s = <<>> THEN 0
    ELSE DigitsValue(SubSeq(s, 1, Len(s) - 1)) * 10 + DigitValue(s[Len(s)])

RECURSIVE Pow10(_)
Pow10(n) == IF n = 0 THEN 1 ELSE 10 * Pow10(n - 1)

HasSign(s) == s # <<>> /\ s[1] \in {"-", "+"}

Unsigned(s) == IF HasSign(s) THEN Tail(s) ELSE s

SignOf(s) == IF s # <<>> /\ s[1] = "-" THEN 0 - 1 ELSE 1

\* the outcome of a conversion that raised ValueError
ValueError == [ok |-> FALSE]

\* int(s) on a string: an optional sign and one or more decimal digits.
\* (Blanks around the number and underscores between digits, which int()
\* also takes, are not among the modelled characters.)
PyInt(s) ==
    LET body == Unsigned(s) IN
    IF body # <<>> /\ AllDigits(body)
    THEN [ok |-> TRUE, val |-> SignOf(s) * DigitsValue(body)]
    ELSE ValueError

\* float(s) on a string: an optional sign, digits with at most one point and
\* at least one digit; the value is the rational num / den.
\* (Exponents, "inf" and "nan" are not among the modelled strings.)
PyFloat(s) ==
    LET body == Unsigned(s)
        dots == {i \in 1..Len(body) : body[i] = "."}
        dot == IF dots = {} THEN Len(body) + 1 ELSE CHOOSE i \in dots : TRUE
        whole == SubSeq(body, 1, dot - 1)
        frac == SubSeq(body, dot + 1, Len(body))
    IN  IF /\ Cardinality(dots) <= 1
           /\ AllDigits(whole) /\ AllDigits(frac)
           /\ Len(whole) + Len(frac) >= 1
        THEN [ok |-> TRUE,
              val |-> [num |-> SignOf(s) * DigitsValue(whole \o frac),
                       den |-> Pow10(Len(frac))]]
        ELSE ValueError

\* the sys.argv entry at index i of the code
Arg(i) == argv[i + 1]

\* parse_cli's try block: the converted (K, max_iter, eps), or ValueError
Converted ==
    LET argc == Len(argv)
        k == PyInt(Arg(1))
        mi == IF argc = 6 THEN PyInt(Arg(2)) ELSE [ok |-> TRUE, val |-> 300]
        e == IF argc = 6 THEN PyFloat(Arg(3)) ELSE PyFloat(Arg(2))
    IN  IF k.ok /\ mi.ok /\ e.ok
        THEN [ok |-> TRUE, K |-> k.val, max_iter |-> mi.val, eps |-> e.val]
        ELSE ValueError

\* print(lines...); sys.exit(1)
Fail(lines) ==
    /\ stdout' = stdout \o lines
    /\ status' = Exited(1)
    /\ pc' = "exit"
    /\ UNCHANGED <<K, max_iter, eps>>

\* parse_cli(sys.argv)
ParseCli ==
    /\ pc = "parse_cli"
    /\ IF Len(argv) \notin {5, 6} THEN Fail(<<ERR_GENERAL>>)
       ELSE IF ~Converted.ok THEN Fail(<<"hoemo", ERR_GENERAL>>)
       ELSE IF Converted.K <= 1 THEN Fail(<<ERR_INVALID_K>>)
       ELSE IF ~(1 < Converted.max_iter /\ Converted.max_iter < 1000)
            THEN Fail(<<ERR_INVALID_ITER>>)
       ELSE IF Converted.eps.num < 0 THEN Fail(<<ERR_INVALID_EPS>>)
       ELSE /\ K' = Converted.K
            /\ max_iter' = Converted.max_iter
            /\ eps' = Converted.eps
            /\ pc' = "read"
            /\ UNCHANGED <<stdout, status>>
    /\ UNCHANGED <<points, lloydVars, seedVars, argv, raw1, raw2>>

\* main: raw1, raw2 = read_points(file1), read_points(file2); N = len(raw1);
\* if not (K < N == len(raw2)): print(ERR_INVALID_K); sys.exit(1)
SizeCheck ==
    /\ pc = "read"
    /\ IF ~(K < Len(raw1) /\ Len(raw1) = Len(raw2))
       THEN /\ stdout' = Append(stdout, ERR_INVALID_K)
            /\ status' = Exited(1)
            /\ pc' = "exit"
       ELSE /\ pc' = "join"
            /\ UNCHANGED <<stdout, status>>
    /\ UNCHANGED <<points, K, max_iter, eps, lloydVars, seedVars, argv, raw1,
                   raw2>>

\* the characters of a string of the tests
Chars(str) ==
    CASE str = "bug" -> <<"b", "u", "g">>
      [] str = "a" -> <<"a">>
      [] str = "hebrew3" -> <<"U+05D1", "U+05D0", "U+05D2">>
      [] str = "hebrew1" -> <<"U+05D0">>
      [] str = "cjk1" -> <<"U+866B">>
      [] str = "cjk2" -> <<"U+30D0", "U+30B0">>
      [] str = "emoji1" -> <<"U+1F41E">>
      [] str = "emoji4" -> <<"U+1F3F4", "U+200D", "U+2620", "U+FE0F">>
      [] str = "bel" -> <<"U+0007">>
      [] str = "bs" -> <<"U+0008">>
      [] str = "-1" -> <<"-", "1">>
      [] str = "-1.00" -> <<"-", "1", ".", "0", "0">>
      [] str = "-1.5" -> <<"-", "1", ".", "5">>
      [] str = "-0.3" -> <<"-", "0", ".", "3">>
      [] str = "-5" -> <<"-", "5">>
      [] str = "0" -> <<"0">>
      [] str = "0.0" -> <<"0", ".", "0">>
      [] str = "1.23" -> <<"1", ".", "2", "3">>
      [] str = "0.42" -> <<"0", ".", "4", "2">>
      [] str = "65,539" -> <<"6", "5", ",", "5", "3", "9">>
      [] str = "65539" -> <<"6", "5", "5", "3", "9">>
      [] str = "1" -> <<"1">>
      [] str = "2" -> <<"2">>
      [] str = "1.0000" -> <<"1", ".", "0", "0", "0", "0">>
      [] str = "3" -> <<"3">>
      [] str = "3.000" -> <<"3", ".", "0", "0", "0">>
      [] str = "03" -> <<"0", "3">>
      [] str = "300" -> <<"3", "0", "0">>
      [] str = "0.001" -> <<"0", ".", "0", "0", "1">>
      [] str = "010" -> <<"0", "1", "0">>
      [] str = "0300" -> <<"0", "3", "0", "0">>
      [] str = "00.001" -> <<"0", "0", ".", "0", "0", "1">>
      [] str = "3.00" -> <<"3", ".", "0", "0">>
      [] str = "300.00" -> <<"3", "0", "0", ".", "0", "0">>
      [] str = "123" -> <<"1", "2", "3">>

\* generate_invalid_param(test_eps) of the tests
Letters == {"bug", "a", "hebrew3", "hebrew1", "cjk1", "cjk2", "emoji1",
            "emoji4"}

GoodIntegers == {"3", "3.000", "03"}

InvalidParams(test_eps) ==
    {Chars(x) : x \in Letters \cup {"bel", "bs"}
                         \cup {"-1", "-1.00", "-1.5", "-0.3", "-5"}}
    \cup (IF test_eps THEN {}
          ELSE {Chars(x) : x \in {"65,539", "65539", "1", "1.0000", "1.23",
                                  "0.42", "0", "0.0"}})
    \cup {Chars(g) \o Chars(x) : g \in GoodIntegers, x \in Letters}

\* test_input_handling: the valid value of each parameter
ValidK == Chars("3")

ValidIter == Chars("300")

ValidEps == Chars("0.001")

\* the well-formed spellings test_input_handling expects to be accepted
GoodK == {Chars(x) : x \in {"3", "010", "3.00"}}

GoodIter == {Chars(x) : x \in {"300", "0300", "300.00"}}

GoodEps == {Chars(x) : x \in {"0.001", "00.001"}}

\* make_stub_files: both files hold the same keys 0, 1, ..., one row each, a
\* key and one coordinate.  (The tests write 100 rows; the checks only compare
\* the number of rows with K.)
StubFile == [i \in 1..StubRows |-> <<i - 1, i - 1>>]

\* execute(config): python3 kmeanspp.py k [max_iter] eps file1 file2 [extra]
CommandLines ==
    LET ks == InvalidParams(FALSE) \cup GoodK
        its == InvalidParams(FALSE) \cup GoodIter
        es == InvalidParams(TRUE) \cup GoodEps
        triples == {<<k, ValidIter, ValidEps>> : k \in ks}
                   \cup {<<ValidK, i, ValidEps>> : i \in its}
                   \cup {<<ValidK, ValidIter, e>> : e \in es}
                   \cup (GoodK \X GoodIter \X GoodEps)
        tail == <<"file1", "file2">>
    IN  {<<"kmeanspp.py", t[1], t[2], t[3]>> \o tail : t \in triples}
        \cup {<<"kmeanspp.py", t[1], t[3]>> \o tail : t \in triples}
        \cup {<<"kmeanspp.py", t[1], t[2], t[3]>> \o tail \o <<Chars("123")>> :
                t \in triples}

InitCli ==
    /\ argv \in CommandLines
    /\ raw1 = StubFile
    /\ raw2 = StubFile
    /\ stdout = <<>>
    /\ status = Running
    /\ pc = "parse_cli"
    /\ points = <<>>
    /\ K = 0 /\ max_iter = 0 /\ eps = [num |-> 0, den |-> 1]
    /\ centroids = <<>> /\ clusters = <<>> /\ new_centroids = <<>>
    /\ it = 0 /\ broke = FALSE /\ init = <<>> /\ run = 1
    /\ first = [C |-> <<>>, broke |-> FALSE]
    /\ NoSeeding

NextCli == ParseCli \/ SizeCheck

SpecCli == InitCli /\ [][NextCli]_vars

----------------------------------------------------------------------------
(* kmeanspp.py: main from the command line to the output.                  *)
(* A row of a file is <<key, coordinate, ...>>.                            *)

\* set(dict_a): the keys of the rows
KeysOf(a) == {a[i][1] : i \in 1..Len(a)}

\* {row[0]: row[1:] for row in a}: a later row replaces an earlier row of
\* the same key
DictOf(a) ==
    [k \in KeysOf(a) |->
        LET i == CHOOSE i \in 1..Len(a) :
                    /\ a[i][1] = k
                    /\ \A j \in (i + 1)..Len(a) : a[j][1] # k
        IN  Tail(a[i])]

\* sorted(S)
RECURSIVE Sorted(_)
Sorted(S) ==
    IF S = {} THEN <<>>
    ELSE LET least == CHOOSE x \in S : \A y \in S : x <= y
         IN  <<least>> \o Sorted(S \ {least})

\* inner_join(a, b): one row per common key, in the order of the keys
inner_join(a, b) ==
    LET dict_a == DictOf(a)
        dict_b == DictOf(b)
        common_keys == Sorted(KeysOf(a) \cap KeysOf(b))
    IN  [j \in 1..Len(common_keys) |->
            dict_a[common_keys[j]] \o dict_b[common_keys[j]]]

\* data = inner_join(raw1, raw2); dim = data.shape[1], which raises
\* IndexError on the array of no rows
Join ==
    /\ pc = "join"
    /\ LET data == inner_join(raw1, raw2) IN
         IF data = <<>>
         THEN /\ pc' = "pp_raised"
              /\ UNCHANGED points
         ELSE /\ points' = ScaledAll(data)
              /\ pc' = "pp_init"
    /\ UNCHANGED <<K, max_iter, eps, lloydVars, seedVars, procVars>>

\* mykmeanspp.fit(points, centroids, K, max_iter, dim, eps) with `left`
\* iterations to go: assignment, update, and the convergence test, which
\* returns the new centroids; the bound variable `new` is the updated set
RECURSIVE fitFrom(_, _, _, _, _, _)
fitFrom(ps, cs, n, left, dim, e) ==
    IF left = 0 THEN cs
    ELSE CHOOSE result \in
             {IF ShiftBelowEps(LargestShiftSq(cs, new), e) THEN new
              ELSE fitFrom(ps, new, n, left - 1, dim, e) :
                 new \in {UpdateCentroids(AssignClusters(ps, cs, n), cs, n,
                                          dim)}} : TRUE

fit(ps, cs, n, mi, dim, e) == fitFrom(ps, cs, n, mi, dim, e)

\* init_centroids = data[init_indices].tolist(); final_centroids = fit(...)
Fit ==
    /\ pc = "seeded"
    /\ init' = [j \in 1..Len(indices) |-> points[indices[j] + 1]]
    /\ centroids' = fit(points, init', K, max_iter, Dim, eps)
    /\ pc' = "print"
    /\ UNCHANGED <<points, K, max_iter, eps, clusters, new_centroids, it,
                   broke, run, first, seedVars, procVars>>

\* f"{coord:.4f}" of a coordinate x >= 0: the nearest multiple of 0.0001,
\* written here as the number of ten-thousandths
Format4(x) == (2 * 10000 * x + Scale) \div (2 * Scale)

\* ','.join(f"{coord:.4f}" for coord in vec): the line, as its numbers
CentroidLine(vec) == [d \in 1..Len(vec) |-> Format4(vec[d])]

\* ','.join(str(i) for i in init_indices): the line, as its numbers
IndexLine(idx) == idx

\* an output that prints the centroids before the line of indices
OutputLinesIndicesLast(idx, final) ==
    [i \in 1..Len(final) |-> CentroidLine(final[i])] \o <<IndexLine(idx)>>

\* the lines main prints: the indices, then one line per centroid
OutputLines(idx, final) ==
    <<IndexLine(idx)>> \o [i \in 1..Len(final) |-> CentroidLine(final[i])]

\* the prints at the end of main; the process then ends with status 0
Output ==
    /\ pc = "print"
    /\ stdout' = stdout \o OutputLines(indices, centroids)
    /\ status' = Exited(0)
    /\ pc' = "exit"
    /\ UNCHANGED <<points, K, max_iter, eps, lloydVars, seedVars, argv, raw1,
                   raw2>>

\* the command lines of the runs: K = 2 or 3, max_iter = 2 or left out
MainCommandLines ==
    {<<"kmeanspp.py", Chars(k), Chars("2"), Chars("0.001"), "file1", "file2">> :
        k \in {"2", "3"}}
    \cup {<<"kmeanspp.py", Chars("2"), Chars("0.001"), "file1", "file2">>}

\* a first file as written by a careful user: keys 0, 1, ... in order, each
\* with one coordinate
FirstFiles ==
    UNION {{[i \in 1..n |-> <<i - 1, c[i]>>] : c \in [1..n -> 0..MaxCoord]} :
              n \in 2..MaxN}

\* the keys k come in ascending or in descending order
InOrder(k) ==
    \/ \A i, j \in DOMAIN k : i < j => k[i] <= k[j]
    \/ \A i, j \in DOMAIN k : i < j => k[i] >= k[j]

\* a second file: any keys 0..MaxN-1, also repeated or missing, in ascending
\* or descending order, each row with its key as coordinate
SecondFiles ==
    UNION {{[i \in 1..n |-> <<k[i], k[i]>>] :
               k \in {f \in [1..n -> 0..(MaxN - 1)] : InOrder(f)}} :
              n \in 2..MaxN}

InitMain ==
    /\ argv \in MainCommandLines
    /\ raw1 \in FirstFiles
    /\ raw2 \in SecondFiles
    /\ stdout = <<>>
    /\ status = Running
    /\ pc = "parse_cli"
    /\ points = <<>>
    /\ K = 0 /\ max_iter = 0 /\ eps = [num |-> 0, den |-> 1]
    /\ centroids = <<>> /\ clusters = <<>> /\ new_centroids = <<>>
    /\ it = 0 /\ broke = FALSE /\ init = <<>> /\ run = 1
    /\ first = [C |-> <<>>, broke |-> FALSE]
    /\ NoSeeding

NextMain ==
    \/ ParseCli \/ SizeCheck \/ Join
    \/ PpFirst \/ PpProbs \/ PpChoose \/ PpReturn
    \/ Fit \/ Output \/ MainExcept

SpecMain == InitMain /\ [][NextMain]_vars

----------------------------------------------------------------------------
(* Properties of the Lloyd iteration *)

\* the value kmeans returns, once it has returned
Returned == pc = "done"

\* the test `largest_shift < eps` of the current iteration succeeds
ShiftIsBelowEps ==
    ShiftBelowEps(LargestShiftSq(centroids, new_centroids), eps)

\* C1 as stated: when the convergence test succeeds, the returned centroid
\* set is the newly computed one of that iteration.
C1_ReturnsNewOnConvergence ==
    (Returned /\ broke) => centroids = new_centroids

\* C1 amended: when the convergence test of an iteration succeeds, kmeans
\* stops and returns the centroid set that iteration started from; the newly
\* computed set is not taken over.
C1_ReturnsPreviousOnConvergence ==
    [][(pc = "test" /\ ShiftIsBelowEps)
         => (pc' = "done" /\ broke' /\ centroids' = centroids)]_vars

\* the loop was left by break although the new centroids differ from the old
C1_Witness == Returned /\ broke /\ centroids # new_centroids

\* steps left in the current call: it falls with every step of the call
Measure ==
    CASE pc = "done" -> 0
      [] pc = "loop" -> 3 * (max_iter - it) + 1
      [] pc = "update" -> 3 * (max_iter - it) + 3
      [] pc = "test" -> 3 * (max_iter - it) + 2

C2_Bounded ==
    /\ it \in 0..max_iter
    /\ Measure >= 0
    /\ Returned => it >= 1
    /\ (Returned /\ eps.num = 0) => (it = max_iter /\ ~broke)
    /\ ~Returned => ENABLED (Assign \/ Update \/ Test \/ Return)

\* C2: a call executes at most max_iter iterations and then has returned:
\* the iteration count never exceeds max_iter, every step of a call lowers a
\* non-negative measure, a call that has not returned can take a step, and
\* with eps = 0 the loop ends after exactly max_iter iterations.
C2_TerminatesWithinMaxIter ==
    /\ []C2_Bounded
    /\ [][run' = run => Measure' < Measure]_vars

\* a call with eps = 0 has returned after several iterations
C2_Witness == Returned /\ eps.num = 0 /\ it = max_iter /\ it >= 2

\* C3: when all max_iter iterations ran without the convergence test
\* succeeding, the returned set is the one the last update step computed.
C3_CapReturnsLastUpdate ==
    (Returned /\ ~broke) =>
        /\ it = max_iter
        /\ centroids = new_centroids

\* the cap ended a call whose last update still moved a centroid
C3_Witness ==
    /\ Returned /\ ~broke /\ it = max_iter /\ it >= 2
    /\ centroids # init

\* centroid k is nearest to p, and no centroid of lower index is as near
LowestNearest(p, cs, k) ==
    /\ \A j \in 1..Len(cs) : euclideanSq(p, cs[k]) <= euclideanSq(p, cs[j])
    /\ \A j \in 1..(k - 1) : euclideanSq(p, cs[k]) < euclideanSq(p, cs[j])

\* C4: after every assignment step, cluster k holds exactly the points whose
\* nearest centroid is k, a point at the same minimal distance from several
\* centroids being held by the one of lowest index.
C4_NearestLowestIndex ==
    (pc \in {"update", "test"}) =>
        /\ Len(clusters) = K
        /\ \A k \in 1..K :
             clusters[k] =
               SelectSeq(points, LAMBDA p : LowestNearest(p, centroids, k))

\* a point equidistant from two different centroids, both nearest, was
\* assigned to the first of them
C4_Witness ==
    /\ pc = "update"
    /\ K >= 2
    /\ \E j \in 1..Len(points) :
         /\ centroids[1] # centroids[2]
         /\ euclideanSq(points[j], centroids[1])
              = euclideanSq(points[j], centroids[2])
         /\ \A k \in 1..K : euclideanSq(points[j], centroids[1])
                              <= euclideanSq(points[j], centroids[k])
         /\ \E i \in 1..Len(clusters[1]) : clusters[1][i] = points[j]

\* C5: after every update step there are K new centroids, and the new
\* centroid of every cluster without points equals its previous centroid.
C5_EmptyClusterKeepsCentroid ==
    (pc = "test") =>
        /\ Len(new_centroids) = K
        /\ \A k \in 1..K :
             clusters[k] = <<>> => new_centroids[k] = centroids[k]

\* an update step with an empty cluster whose centroid is not the origin,
\* while another centroid moved
C5_Witness ==
    /\ pc = "test"
    /\ \E k \in 1..K :
         /\ clusters[k] = <<>>
         /\ \E i \in 1..Dim : centroids[k][i] # 0
    /\ new_centroids # centroids

\* the second call passed the convergence test in its first iteration
ConvergedAtOnce == broke /\ it = 1

\* C6 as stated: a second call started from the returned set C either passes
\* the convergence test in its first iteration or returns exactly C.
C6_Idempotent ==
    (run = 2 /\ Returned) => (ConvergedAtOnce \/ centroids = first.C)

\* C6 amended: when the first call ended by the convergence test (not by the
\* iteration cap), a second call started from the returned set C passes the
\* convergence test in its first iteration or returns exactly C.
C6_IdempotentAfterConvergence ==
    (run = 2 /\ Returned /\ first.broke) =>
        (ConvergedAtOnce \/ centroids = first.C)

\* a second call has returned after a first call that converged with a
\* non-zero shift
C6_Witness ==
    /\ run = 2 /\ Returned /\ first.broke
    /\ new_centroids # centroids

RECURSIVE MinDistSq(_, _, _)
MinDistSq(p, cs, k) ==
    IF k = Len(cs) THEN euclideanSq(p, cs[k])
    ELSE LET d == euclideanSq(p, cs[k])
             r == MinDistSq(p, cs, k + 1)
         IN  IF d <= r THEN d ELSE r

RECURSIVE SumMinDistSq(_, _, _)
SumMinDistSq(ps, cs, j) ==
    IF j > Len(ps) THEN 0
    ELSE MinDistSq(ps[j], cs, 1) + SumMinDistSq(ps, cs, j + 1)

\* within-cluster sum of squared distances of a centroid set
WCSS(ps, cs) == SumMinDistSq(ps, cs, 1)

\* C7: the within-cluster sum of squared distances of the centroid set an
\* iteration computes is at most that of the set the iteration started from.
C7_Monotone ==
    (pc = "test") => WCSS(points, new_centroids) <= WCSS(points, centroids)

\* an iteration with an empty cluster that lowered the sum
C7_Witness ==
    /\ pc = "test"
    /\ \E k \in 1..K : clusters[k] = <<>>
    /\ WCSS(points, new_centroids) < WCSS(points, centroids)

\* the example's inputs, with initial centroids (0,0) and (10,10)
IsExample ==
    /\ points = ScaledAll(Example.points)
    /\ K = Example.K
    /\ max_iter = Example.max_iter
    /\ eps = Example.eps
    /\ init = ScaledAll(<< <<0, 0>>, <<10, 10>> >>)
    /\ run = 1

\* C8: on the example kmeans returns (0, 0.5) and (10, 10.5), in this order.
C8_Example ==
    (IsExample /\ Returned) =>
        centroids = << <<0, Scale \div 2>>, <<10 * Scale, (21 * Scale) \div 2>> >>

\* the example has returned
C8_Witness == IsExample /\ Returned /\ broke

\* cs holds K vectors of dim coordinates each, dim being that of the points
WellShaped(cs) ==
    /\ DOMAIN cs = 1..K
    /\ \A k \in 1..K : DOMAIN cs[k] = 1..Len(points[1])

\* C17: at the start of the loop, after every update step and at the return
\* the centroid set holds exactly K centroids of dim coordinates each, and
\* so does the set an update step has computed.
C17_ShapeInvariant ==
    /\ \A j \in 1..Len(points) : Len(points[j]) = Len(points[1])
    /\ WellShaped(centroids)
    /\ (pc = "test") => WellShaped(new_centroids)

\* a call on points of two coordinates has returned a set other than the
\* initial one, after an iteration that left a cluster without points
C17_Witness ==
    /\ Returned
    /\ Len(points[1]) = 2
    /\ centroids # init
    /\ \E k \in 1..K : clusters[k] = <<>>

\* C18: no step of kmeans changes the list of points or a coordinate of a
\* point, so at the return the points are what they were at the call.
C18_PointsNeverModified == [][points' = points]_vars

\* a call started from the first K points has returned after several
\* iterations, the first centroid no longer being the first point
C18_Witness ==
    /\ Returned /\ run = 1
    /\ it >= 2
    /\ init = FirstK(points, K)
    /\ centroids[1] # points[1]
    /\ \E j \in 1..Len(clusters[1]) : clusters[1][j] = points[1]

----------------------------------------------------------------------------
(* tester.py: kmeans_reference, the implementation test_fit compares with *)

\* a - b of two vectors
Minus(a, b) == [i \in 1..Len(a) |-> a[i] - b[i]]

RECURSIVE NormSqFrom(_, _)
NormSqFrom(v, i) == IF i > Len(v) THEN 0 ELSE v[i] * v[i] + NormSqFrom(v, i + 1)

\* np.linalg.norm(v) squared
NormSq(v) == NormSqFrom(v, 1)

\* np.argmin over the distances of x to the centroids: the index of the
\* least distance, the first one where it occurs several times
ArgMin(x, cs) ==
    CHOOSE k \in 1..Len(cs) :
        /\ \A j \in 1..Len(cs) : NormSq(Minus(x, cs[k])) <= NormSq(Minus(x, cs[j]))
        /\ \A j \in 1..(k - 1) : NormSq(Minus(x, cs[k])) # NormSq(Minus(x, cs[j]))

\* labels = np.argmin(dists, axis=1)
Labels(datapoints, cs) ==
    [i \in 1..Len(datapoints) |-> ArgMin(datapoints[i], cs)]

\* new_centroids[k] after `new_centroids[k] += x` for the points i.. of label k
RECURSIVE LabelSum(_, _, _, _, _)
LabelSum(datapoints, labels, k, zero, i) ==
    IF i > Len(datapoints) THEN zero
    ELSE LET rest == LabelSum(datapoints, labels, k, zero, i + 1) IN
         IF labels[i] = k
         THEN [d \in 1..Len(zero) |-> datapoints[i][d] + rest[d]]
         ELSE rest

\* clusters_sizes[k]
ClusterSize(labels, k) == Cardinality({i \in 1..Len(labels) : labels[i] = k})

\* new_centroids of an iteration of kmeans_reference, given its labels
ReferenceMeans(datapoints, cs, labels) ==
    LET zero == [d \in 1..Len(cs[1]) |-> 0] IN
    [k \in 1..Len(cs) |->
        IF ClusterSize(labels, k) > 0
        THEN LET sum == LabelSum(datapoints, labels, k, zero, 1) IN
             [d \in 1..Len(zero) |-> sum[d] \div ClusterSize(labels, k)]
        ELSE cs[k]]

\* new_centroids at the end of an iteration of kmeans_reference: the one
\* element of the set written here, whose bound variable is `labels`
ReferenceUpdate(datapoints, cs) ==
    CHOOSE new \in {ReferenceMeans(datapoints, cs, labels) :
                       labels \in {Labels(datapoints, cs)}} : TRUE

\* np.all(np.linalg.norm(centroids - new_centroids, axis=1) < eps), through
\* squares: for integers x, N and D > 0, x * D < N just when x <= (N - 1) / D
\* rounded down
AllNormsBelow(cs, new, e) ==
    \A k \in 1..Len(cs) :
        NormSq(Minus(cs[k], new[k]))
            <= (e.num * e.num * Scale * Scale - 1) \div (e.den * e.den)

\* the loop `for _ in range(max_iter)` with `left` iterations to go; the
\* value it returns is the one element of the set written here, whose bound
\* variable `new` is new_centroids of the iteration
RECURSIVE ReferenceLoop(_, _, _, _)
ReferenceLoop(datapoints, cs, e, left) ==
    IF left = 0 THEN cs
    ELSE CHOOSE result \in
             {IF AllNormsBelow(cs, new, e) THEN cs
              ELSE ReferenceLoop(datapoints, new, e, left - 1) :
                 new \in {ReferenceUpdate(datapoints, cs)}} : TRUE

kmeans_reference(datapoints, init_centroids, e, mi) ==
    ReferenceLoop(datapoints, init_centroids, e, mi)

\* centroid_diffs = np.abs(result - reference_centroids);
\* np.all(centroid_diffs < eps)
AllDiffsBelow(result, reference, e) ==
    /\ Len(result) = Len(reference)
    /\ \A k \in 1..Len(result) :
         /\ Len(result[k]) = Len(reference[k])
         /\ \A d \in 1..Len(result[k]) :
              LET diff == result[k][d] - reference[k][d]
                  abs == IF diff < 0 THEN 0 - diff ELSE diff
              IN  abs * e.den < e.num * Scale

\* C13: for eps > 0, the centroids kmeans returns differ from those that
\* kmeans_reference returns for the same points, initial centroids, eps and
\* max_iter by less than eps in every coordinate of every centroid.
C13_MatchesReference ==
    (Returned /\ eps.num > 0) =>
        AllDiffsBelow(centroids,
                      kmeans_reference(points, init, eps, max_iter), eps)

\* a call with eps > 0 has passed the convergence test after several
\* iterations and has returned a set other than the initial one
C13_Witness ==
    /\ Returned /\ eps.num > 0
    /\ broke /\ it >= 2
    /\ centroids # init

----------------------------------------------------------------------------
(* Properties of the seeding *)

\* seeding was called with more points than clusters, and every point is at
\* distance zero from a chosen point
Degenerate ==
    /\ K < Len(points)
    /\ dists # <<>>
    /\ \A j \in 1..Len(dists) : dists[j] = 0

\* C9: when every point is at distance zero from a chosen centroid, seeding
\* does not divide by the zero total, and it ends either with K indices or
\* with an error message of its own, which is not the general error message.
C9_DegenerateSeedingGuarded ==
    /\ (pc = "pp_choose" /\ Degenerate) =>
          \A j \in 1..Len(probs) : probs[j].den # 0
    /\ (pc \in {"seeded", "exit"} /\ Degenerate) =>
          \/ pc = "seeded" /\ Len(indices) = K
          \/ pc = "exit" /\ status = Exited(1) /\ stdout # <<ERR_GENERAL>>

\* the point of index i (0-based, as in `indices`)
PointAt(i) == points[i + 1]

\* the point of index i coincides with a point chosen so far, that is, its
\* distance to the nearest chosen point is zero
AtChosen(i) == \E j \in 1..Len(indices) : PointAt(i) = PointAt(indices[j])

\* the indices in idx are pairwise distinct, and so are their points
AllDistinct(idx) ==
    \A i, j \in 1..Len(idx) :
        i # j => (idx[i] # idx[j] /\ PointAt(idx[i]) # PointAt(idx[j]))

\* a step of the seeding after the first has selected an index
Selects == pc = "pp_choose" /\ Len(indices') = Len(indices) + 1

\* C16: whenever a step after the first selects a point, some point is at
\* non-zero distance from all chosen points and the selected point is one of
\* these; so the indices chosen so far, and at the return the K indices,
\* are pairwise distinct and so are their points.
C16_ZeroDistanceNeverSelected ==
    /\ [](AllDistinct(indices) /\ (pc = "seeded" => Len(indices) = K))
    /\ [][Selects =>
            /\ \E i \in 0..(Len(points) - 1) : ~AtChosen(i)
            /\ ~AtChosen(indices'[Len(indices')])]_vars

\* seeding has returned K indices, and a point that coincides with a chosen
\* point is not among them
C16_Witness ==
    /\ pc = "seeded"
    /\ Len(indices) = K
    /\ \E i \in 0..(Len(points) - 1) :
         /\ AtChosen(i)
         /\ \A j \in 1..K : indices[j] # i

\* the second call of kmeans_pp_init has ended
SecondCallEnded == earlier # <<>> /\ pc \in {"seeded", "pp_raised", "exit"}

\* C14: a second call of kmeans_pp_init on the same points and K returns the
\* indices the first call returned, whatever numbers the program drew from
\* the generator before either call.
C14_SeedingReproducible ==
    /\ earlier # <<>> =>
          /\ Len(indices) <= Len(earlier)
          /\ \A j \in 1..Len(indices) : indices[j] = earlier[j]
    /\ SecondCallEnded => (pc = "seeded" /\ indices = earlier)

\* both calls have returned, on three points, the first index chosen not the
\* first point and the second chosen by the weights
C14_Witness ==
    /\ pc = "seeded" /\ earlier # <<>>
    /\ indices = earlier
    /\ Len(points) = 3
    /\ earlier[1] # 0
    /\ Len(tape) = K

----------------------------------------------------------------------------
(* Properties of main *)

\* the run was successful: main has ended without an error
Successful == status = Exited(0)

\* C15: a successful run has printed exactly K + 1 lines: first the K indices
\* chosen by the seeding, in selection order, then the K final centroids in
\* the order of the cluster indices, line i + 1 being the centroid that
\* started as the i-th selected point; nothing is printed while main runs.
C15_OutputOrder ==
    /\ status = Running => stdout = <<>>
    /\ Successful =>
          /\ Len(stdout) = K + 1
          /\ Len(indices) = K
          /\ stdout[1] = indices
          /\ \A i \in 1..K :
                /\ init[i] = PointAt(indices[i])
                /\ stdout[i + 1] = CentroidLine(centroids[i])
          /\ centroids = fit(points, init, K, max_iter, Len(points[1]), eps)

\* a successful run whose seeding chose a later point before an earlier one
\* and whose centroids are not the chosen points
C15_Witness ==
    /\ Successful
    /\ indices[1] > indices[2]
    /\ centroids # init
    /\ stdout[2] # stdout[3]

\* main has called kmeans_pp_init, and has not failed since
ReachedSeeding == pc \in {"pp_init", "pp_loop", "pp_choose", "seeded", "print"}

\* C19: whenever main reaches seeding and fit, the number of points passed to
\* them, the rows of the inner join, is strictly greater than K.
C19_JoinedRowsExceedK == ReachedSeeding => K < Len(points)

----------------------------------------------------------------------------
(* Properties of the command line *)

\* the process has ended with status 1 and has printed exactly `msg`
RejectedWith(msg) == status = Exited(1) /\ stdout = <<msg>>

\* the command line has all of K, max_iter and eps
FullCommandLine == Len(argv) = 6

\* the process has ended, or has passed every check on its parameters
Decided == pc \in {"exit", "join"}

\* C10: run with one of K, max_iter and eps set to an invalid value of the
\* tests and the others and the files valid, the process exits with status 1
\* and prints exactly that parameter's own message.
C10_InvalidParamRejected ==
    (FullCommandLine /\ Decided) =>
        /\ (Arg(1) \in InvalidParams(FALSE) /\ Arg(2) = ValidIter
              /\ Arg(3) = ValidEps) => RejectedWith(ERR_INVALID_K)
        /\ (Arg(1) = ValidK /\ Arg(2) \in InvalidParams(FALSE)
              /\ Arg(3) = ValidEps) => RejectedWith(ERR_INVALID_ITER)
        /\ (Arg(1) = ValidK /\ Arg(2) = ValidIter
              /\ Arg(3) \in InvalidParams(TRUE)) => RejectedWith(ERR_INVALID_EPS)

\* the command line of the tests with one argument too many: the valid K,
\* max_iter and eps, both files and one more argument
OneArgumentTooMany ==
    /\ Len(argv) = 7
    /\ Arg(1) = ValidK /\ Arg(2) = ValidIter /\ Arg(3) = ValidEps

\* C11: run with one argument too many, the process exits with status 1 and
\* its standard output is exactly the line 'An Error Has Occurred'.
C11_TooManyArgumentsMessage ==
    (OneArgumentTooMany /\ Decided) => RejectedWith("An Error Has Occurred")

\* K, max_iter and eps are all written in a spelling the tests expect to be
\* accepted
WellFormedSpelling ==
    /\ FullCommandLine
    /\ Arg(1) \in GoodK
    /\ Arg(2) \in GoodIter
    /\ Arg(3) \in GoodEps

\* C12: run with well-formed spellings of K, max_iter and eps (plain, with
\* leading zeros, or decimals with a zero fractional part) the process is
\* not rejected: it passes every check on its parameters and never ends with
\* a status other than 0.
C12_WellFormedAccepted ==
    WellFormedSpelling =>
        /\ status \in {Running, Exited(0)}
        /\ Decided => pc = "join"

====
